---------------------------- MODULE Spec2Model ----------------------------
(***************************************************************************)
(* Section properties and capacities (elastic / plastic) of sections.py:   *)
(* the built-up I, the tube with two channels left-right and top-bottom,   *)
(* the CSV / XLSX export and the demo run.                                 *)
(*                                                                         *)
(* Numbers.  The program computes in Python floats.  The model computes    *)
(* the same expressions exactly: a float is a rational <<n, d>> in lowest  *)
(* terms (d > 0), and a value that depends on math.pi is a pair <<q, p>>   *)
(* of rationals standing for q + p*pi.  Rounding of the floats is not      *)
(* modelled.                                                               *)
(*                                                                         *)
(* Units.  Lengths are carried in centimetres instead of millimetres (the  *)
(* model's integers are 32 bit wide): a source length L mm is L/10, an     *)
(* area A mm^2 is A/100, an inertia I mm^4 is I/10000, and fy = 355 N/mm^2 *)
(* is 35500 N/cm^2.  Every source constant is written with its source      *)
(* digits and the conversion factor next to it.  All formulas are          *)
(* homogeneous in the length unit, so ratios (shape factors), comparisons  *)
(* and moments in kN*m are the values of the program.  Record entries keep *)
(* the source's key names (A_mm2, Ix_mm4, ...).                            *)
(***************************************************************************)
EXTENDS Integers, Sequences, FiniteSets, TLC

(***************************************************************************)
(* Exact arithmetic standing for float arithmetic                          *)
(***************************************************************************)
Abs(x) == IF x < 0 THEN -x ELSE x

RECURSIVE GCD(_, _)
GCD(a, b) == IF b = 0 THEN a ELSE GCD(b, a % b)

\* the rational n/d (d # 0) in lowest terms with a positive denominator
Frac(n, d) ==
    LET g == GCD(Abs(n), Abs(d))
        s == IF d < 0 THEN -1 ELSE 1
    IN  <<s * (n \div g), s * (d \div g)>>

R(i) == <<i, 1>>

RZero == R(0)

RNeg(x) == <<-x[1], x[2]>>

RAdd(x, y) ==
    LET g == GCD(x[2], y[2])
    IN  Frac(x[1] * (y[2] \div g) + y[1] * (x[2] \div g), (x[2] \div g) * y[2])

RSub(x, y) == RAdd(x, RNeg(y))

RMul(x, y) ==
    LET g1 == GCD(Abs(x[1]), y[2])
        g2 == GCD(Abs(y[1]), x[2])
    IN  <<(x[1] \div g1) * (y[1] \div g2), (x[2] \div g2) * (y[2] \div g1)>>

\* y # 0; the callers raise ZeroDivisionError before dividing by zero
RDiv(x, y) ==
    RMul(x, IF y[1] < 0 THEN <<-y[2], -y[1]>> ELSE <<y[2], y[1]>>)

RSq(x) == RMul(x, x)

RCube(x) == RMul(x, RMul(x, x))

RPow4(x) == RMul(RSq(x), RSq(x))

RSign(x) == IF x[1] > 0 THEN 1 ELSE IF x[1] < 0 THEN -1 ELSE 0

RLe(x, y) == RSign(RSub(x, y)) <= 0

RLt(x, y) == RSign(RSub(x, y)) < 0

RMax(x, y) == IF RLe(x, y) THEN y ELSE x

RMin(x, y) == IF RLe(x, y) THEN x ELSE y

RAbs(x) == <<Abs(x[1]), x[2]>>

(***************************************************************************)
(* Material (fy) and the moment unit conversion                            *)
(***************************************************************************)
\* Material.fy = 355.0 N/mm^2, in N/cm^2
fy == R(355 * 100)

\* nmm_to_knm(fy * W): M / 1e6 on N*mm is M / 1e5 on N*cm.  The exact value
\* is computed as (fy / 1e5) * W, which keeps the integers in range.
Moment(W) == RMul(RDiv(fy, R(1000000 \div 10)), W)

(***************************************************************************)
(* Section 1: Built-up I.  s is the dataclass: b_top, t_top, b_bot, t_bot, *)
(* tw, H (rationals).                                                      *)
(***************************************************************************)
I_hw(s) == RSub(RSub(s.H, s.t_top), s.t_bot)

I_A_top(s) == RMul(s.b_top, s.t_top)

I_A_web(s) == RMul(s.tw, I_hw(s))

I_A_bot(s) == RMul(s.b_bot, s.t_bot)

I_A(s) == RAdd(RAdd(I_A_top(s), I_A_web(s)), I_A_bot(s))

I_y_top(s) == RDiv(s.t_top, R(2))

\* mutant of I_y_web: the web centroid measured from the top of the web
\* instead of the top face
I_y_web_from_web_top(s) == RDiv(I_hw(s), R(2))

I_y_web(s) == RAdd(s.t_top, RDiv(I_hw(s), R(2)))

I_y_bot(s) == RSub(s.H, RDiv(s.t_bot, R(2)))

I_ybar(s) ==
    RDiv(RAdd(RAdd(RMul(I_A_top(s), I_y_top(s)), RMul(I_A_web(s), I_y_web(s))),
              RMul(I_A_bot(s), I_y_bot(s))),
         I_A(s))

I_c_top(s) == I_ybar(s)

\* mutant of I_c_bot: the difference taken the wrong way round
I_c_bot_reversed(s) == RSub(I_ybar(s), s.H)

I_c_bot(s) == RSub(s.H, I_ybar(s))

I_Ix(s) ==
    LET Ix_top0 == RDiv(RMul(s.b_top, RCube(s.t_top)), R(12))
        Ix_web0 == RDiv(RMul(s.tw, RCube(I_hw(s))), R(12))
        Ix_bot0 == RDiv(RMul(s.b_bot, RCube(s.t_bot)), R(12))
        d_top   == RAbs(RSub(I_y_top(s), I_ybar(s)))
        d_web   == RAbs(RSub(I_y_web(s), I_ybar(s)))
        d_bot   == RAbs(RSub(I_y_bot(s), I_ybar(s)))
    IN  RAdd(RAdd(RAdd(RAdd(RAdd(Ix_top0, RMul(I_A_top(s), RSq(d_top))),
                            Ix_web0), RMul(I_A_web(s), RSq(d_web))),
                  Ix_bot0), RMul(I_A_bot(s), RSq(d_bot)))

I_Iy(s) ==
    LET Iy_top == RDiv(RMul(s.t_top, RCube(s.b_top)), R(12))
        Iy_web == RDiv(RMul(I_hw(s), RCube(s.tw)), R(12))
        Iy_bot == RDiv(RMul(s.t_bot, RCube(s.b_bot)), R(12))
    IN  RAdd(RAdd(Iy_top, Iy_web), Iy_bot)

\* mutant of I_We_x: the larger of the two moduli instead of the governing one
I_We_x_max(s) == RMax(RDiv(I_Ix(s), I_c_top(s)), RDiv(I_Ix(s), I_c_bot(s)))

I_We_x(s) == RMin(RDiv(I_Ix(s), I_c_top(s)), RDiv(I_Ix(s), I_c_bot(s)))

I_We_y(s) == RDiv(I_Iy(s), RMax(RDiv(s.b_top, R(2)), RDiv(s.b_bot, R(2))))

I_A_half(s) == RDiv(I_A(s), R(2))

\* the branch of the neutral-axis search: TRUE when the axis is put in the
\* top flange (A_top >= A_half)
I_in_top(s) == RLe(I_A_half(s), I_A_top(s))

I_y_PNA(s) ==
    IF I_in_top(s)
    THEN RDiv(I_A_half(s), s.b_top)
    ELSE RAdd(s.t_top, RDiv(RSub(I_A_half(s), I_A_top(s)), s.tw))

I_Qc(s) ==
    IF I_in_top(s)
    THEN LET t == RDiv(I_A_half(s), s.b_top)
         IN  RMul(RMul(s.b_top, t), RDiv(t, R(2)))
    ELSE LET t      == RDiv(RSub(I_A_half(s), I_A_top(s)), s.tw)
             Qc_top == RMul(I_A_top(s), RSub(I_y_PNA(s), I_y_top(s)))
             Qc_web == RMul(RMul(s.tw, t), RDiv(t, R(2)))
         IN  RAdd(Qc_top, Qc_web)

I_Wp_x(s) ==
    LET web_lower_h == RSub(I_hw(s), RSub(I_y_PNA(s), s.t_top))
        Qt_web      == RMul(RMul(s.tw, web_lower_h), RDiv(web_lower_h, R(2)))
        dist_to_bot == RSub(RSub(s.H, RDiv(s.t_bot, R(2))), I_y_PNA(s))
        Qt_bot      == RMul(I_A_bot(s), dist_to_bot)
    IN  RAdd(RAdd(I_Qc(s), Qt_web), Qt_bot)

I_Wp_y(s) ==
    RAdd(RAdd(RDiv(RMul(s.t_top, RSq(s.b_top)), R(4)),
              RDiv(RMul(s.t_bot, RSq(s.b_bot)), R(4))),
         RDiv(RMul(I_hw(s), RSq(s.tw)), R(4)))

(***************************************************************************)
(* Values that depend on math.pi: <<q, p>> stands for q + p*pi             *)
(***************************************************************************)
PRat(q) == <<q, RZero>>

PAdd(x, y) == <<RAdd(x[1], y[1]), RAdd(x[2], y[2])>>

PSub(x, y) == <<RSub(x[1], y[1]), RSub(x[2], y[2])>>

PDivR(x, r) == <<RDiv(x[1], r), RDiv(x[2], r)>>

\* nmm_to_knm(fy * W) for W = q + p*pi
PMoment(W) == <<Moment(W[1]), Moment(W[2])>>

\* 333/106 < pi < 355/113
PiLo == Frac(333, 106)

PiHi == Frac(355, 113)

\* the sign of q + p*pi.  When q and p have opposite signs it is decided by
\* comparing |q/p| with the two bounds of pi; a ratio strictly between the
\* bounds is not decided and stops the evaluation (the CHOOSE has no value).
PSign(x) ==
    LET sq == RSign(x[1])
        sp == RSign(x[2])
    IN  IF sp = 0 THEN sq
        ELSE IF sq = 0 \/ sq = sp THEN sp
        ELSE LET ratio == RAbs(RDiv(x[1], x[2]))
             IN  IF RLe(ratio, PiLo) THEN sp
                 ELSE IF RLe(PiHi, ratio) THEN sq
                 ELSE CHOOSE undecided \in {} : TRUE

PLe(x, y) == PSign(PSub(x, y)) <= 0

(***************************************************************************)
(* Values held by a record (a Python dict with string keys): a float       *)
(* q + p*pi, a string, or the quotient of two floats whose value is not of *)
(* the form q + p*pi (a shape factor of a composite section).              *)
(***************************************************************************)
Num(q) == <<"f", q, RZero>>

PNum(x) == <<"f", x[1], x[2]>>

Str(s) == <<"s", s>>

Quot(x, y) == <<"q", x, y>>

ZeroDivisionError == [raised |-> "ZeroDivisionError"]

Returned(rec) == [raised |-> "", value |-> rec]

(***************************************************************************)
(* BuiltUpI.compute                                                        *)
(***************************************************************************)
\* a division of compute() has a zero divisor, in the order of the code
I_raises(s) ==
    \/ RSign(I_A(s)) = 0
    \/ RSign(I_c_top(s)) = 0
    \/ RSign(I_c_bot(s)) = 0
    \/ RSign(s.b_top) = 0 /\ RSign(s.b_bot) = 0
    \/ I_in_top(s) /\ RSign(s.b_top) = 0
    \/ ~I_in_top(s) /\ RSign(s.tw) = 0
    \/ RSign(I_We_x(s)) = 0
    \/ RSign(I_We_y(s)) = 0

BuiltUpI_compute(s) ==
    IF I_raises(s) THEN ZeroDivisionError
    ELSE Returned(
        [A_mm2    |-> Num(I_A(s)),
         Ix_mm4   |-> Num(I_Ix(s)),
         Iy_mm4   |-> Num(I_Iy(s)),
         We_x_mm3 |-> Num(I_We_x(s)),
         We_y_mm3 |-> Num(I_We_y(s)),
         Wp_x_mm3 |-> Num(I_Wp_x(s)),
         Wp_y_mm3 |-> Num(I_Wp_y(s)),
         Me_x_kNm |-> Num(Moment(I_We_x(s))),
         Mp_x_kNm |-> Num(Moment(I_Wp_x(s))),
         shape_x  |-> Num(RDiv(I_Wp_x(s), I_We_x(s))),
         Me_y_kNm |-> Num(Moment(I_We_y(s))),
         Mp_y_kNm |-> Num(Moment(I_Wp_y(s))),
         shape_y  |-> Num(RDiv(I_Wp_y(s), I_We_y(s)))])

(***************************************************************************)
(* CHS helper (tube): c is the dataclass, Do and t                         *)
(***************************************************************************)
CHS_Ro(c) == RDiv(c.Do, R(2))

CHS_Ri(c) == RSub(RDiv(c.Do, R(2)), c.t)

CHS_A(c) == <<RZero, RSub(RSq(CHS_Ro(c)), RSq(CHS_Ri(c)))>>

CHS_I(c) == <<RZero, RMul(Frac(1, 4), RSub(RPow4(CHS_Ro(c)), RPow4(CHS_Ri(c))))>>

CHS_Wp(c) == RMul(Frac(4, 3), RSub(RCube(CHS_Ro(c)), RCube(CHS_Ri(c))))

(***************************************************************************)
(* UPE300 catalog, in cm: A 5660 mm^2, Ix 3.24e7 mm^4, Iy 1.52e6 mm^4,     *)
(* h 300, b 100, tf 15, tw 9.5, hi 270, e_back_to_cg 27.5 mm               *)
(***************************************************************************)
UPE300Catalog ==
    [A  |-> Frac(5660, 100),
     Ix |-> Frac(32400000, 10000),
     Iy |-> Frac(1520000, 10000),
     h  |-> Frac(300, 10),
     b  |-> Frac(100, 10),
     tf |-> Frac(15, 10),
     tw |-> Frac(95, 100),
     hi |-> Frac(270, 10),
     e_back_to_cg |-> Frac(275, 100)]

UPE_We_x(u) == RDiv(u.Ix, RDiv(u.h, R(2)))

UPE_Wp_x_est(u) == RMul(Frac(112, 100), UPE_We_x(u))

UPE_Wp_y_exact(u) ==
    RAdd(RMul(R(2), RDiv(RMul(u.tf, RSq(u.b)), R(4))),
         RDiv(RMul(u.hi, RSq(u.tw)), R(4)))

(***************************************************************************)
(* Section 2: CHS + 2 x UPE (L-R).  s: tube, upe, gap_back and             *)
(* Wp_x_upe_override, which is <<"None">> or <<"f", value>>.               *)
(***************************************************************************)
None == <<"None">>

LR_x_c(s) == RAdd(RAdd(CHS_Ro(s.tube), s.gap_back), s.upe.e_back_to_cg)

LR_A_total(s) == PAdd(CHS_A(s.tube), PRat(RMul(R(2), s.upe.A)))

LR_Ix(s) == PAdd(CHS_I(s.tube), PRat(RMul(R(2), s.upe.Ix)))

LR_Iy(s) ==
    PAdd(CHS_I(s.tube),
         PRat(RMul(R(2), RAdd(s.upe.Iy, RMul(s.upe.A, RSq(LR_x_c(s)))))))

LR_c_x(s) == RMax(CHS_Ro(s.tube), RDiv(s.upe.h, R(2)))

LR_c_y(s) ==
    LET x_outer_upe == RMax(RAdd(CHS_Ro(s.tube), s.gap_back),
                            RAdd(LR_x_c(s), RDiv(s.upe.b, R(2))))
    IN  RMax(CHS_Ro(s.tube), x_outer_upe)

LR_We_x(s) == PDivR(LR_Ix(s), LR_c_x(s))

LR_We_y(s) == PDivR(LR_Iy(s), LR_c_y(s))

LR_Wp_x(s) ==
    LET Wp_x_upe == IF s.Wp_x_upe_override[1] # "None"
                    THEN s.Wp_x_upe_override[2]
                    ELSE UPE_Wp_x_est(s.upe)
    IN  PRat(RAdd(CHS_Wp(s.tube), RMul(R(2), Wp_x_upe)))

LR_Wp_y(s) == PRat(RAdd(CHS_Wp(s.tube), RMul(R(2), RMul(s.upe.A, LR_x_c(s)))))

LR_raises(s) ==
    \/ RSign(s.upe.h) = 0
    \/ RSign(LR_c_x(s)) = 0
    \/ RSign(LR_c_y(s)) = 0
    \/ PSign(LR_We_x(s)) = 0
    \/ PSign(LR_We_y(s)) = 0

CHS_UPE_LR_compute(s) ==
    IF LR_raises(s) THEN ZeroDivisionError
    ELSE Returned(
        [section  |-> Str("CHS+2xUPE L-R"),
         x_c_mm   |-> Num(LR_x_c(s)),
         A_mm2    |-> PNum(LR_A_total(s)),
         Ix_mm4   |-> PNum(LR_Ix(s)),
         Iy_mm4   |-> PNum(LR_Iy(s)),
         We_x_mm3 |-> PNum(LR_We_x(s)),
         We_y_mm3 |-> PNum(LR_We_y(s)),
         Wp_x_mm3 |-> PNum(LR_Wp_x(s)),
         Wp_y_mm3 |-> PNum(LR_Wp_y(s)),
         Me_x_kNm |-> PNum(PMoment(LR_We_x(s))),
         Mp_x_kNm |-> PNum(PMoment(LR_Wp_x(s))),
         shape_x  |-> Quot(LR_Wp_x(s), LR_We_x(s)),
         Me_y_kNm |-> PNum(PMoment(LR_We_y(s))),
         Mp_y_kNm |-> PNum(PMoment(LR_Wp_y(s))),
         shape_y  |-> Quot(LR_Wp_y(s), LR_We_y(s))])

(***************************************************************************)
(* Section 3: CHS + 2 x UPE (T-B).  s: tube, upe, y_c                      *)
(***************************************************************************)
\* mutant of TB_Ix: the Steiner term with the offset not squared
TB_Ix_offset_not_squared(s) ==
    PAdd(CHS_I(s.tube),
         PRat(RMul(R(2), RAdd(s.upe.Ix, RMul(s.upe.A, s.y_c)))))

TB_Ix(s) ==
    PAdd(CHS_I(s.tube),
         PRat(RMul(R(2), RAdd(s.upe.Ix, RMul(s.upe.A, RSq(s.y_c))))))

TB_Iy(s) == PAdd(CHS_I(s.tube), PRat(RMul(R(2), s.upe.Iy)))

TB_c_x(s) == RMax(CHS_Ro(s.tube), RAdd(s.y_c, RDiv(s.upe.h, R(2))))

TB_c_y(s) == RMax(CHS_Ro(s.tube), RDiv(s.upe.b, R(2)))

TB_We_x(s) == PDivR(TB_Ix(s), TB_c_x(s))

TB_We_y(s) == PDivR(TB_Iy(s), TB_c_y(s))

TB_Wp_x(s) == PRat(RAdd(CHS_Wp(s.tube), RMul(R(2), RMul(s.upe.A, s.y_c))))

TB_Wp_y(s) == PRat(RAdd(CHS_Wp(s.tube), RMul(R(2), UPE_Wp_y_exact(s.upe))))

TB_raises(s) ==
    \/ RSign(TB_c_x(s)) = 0
    \/ RSign(TB_c_y(s)) = 0
    \/ PSign(TB_We_x(s)) = 0
    \/ PSign(TB_We_y(s)) = 0

CHS_UPE_TB_compute(s) ==
    IF TB_raises(s) THEN ZeroDivisionError
    ELSE Returned(
        [section  |-> Str("CHS+2xUPE T-B"),
         y_c_mm   |-> Num(s.y_c),
         A_mm2    |-> PNum(PAdd(CHS_A(s.tube), PRat(RMul(R(2), s.upe.A)))),
         Ix_mm4   |-> PNum(TB_Ix(s)),
         Iy_mm4   |-> PNum(TB_Iy(s)),
         We_x_mm3 |-> PNum(TB_We_x(s)),
         We_y_mm3 |-> PNum(TB_We_y(s)),
         Wp_x_mm3 |-> PNum(TB_Wp_x(s)),
         Wp_y_mm3 |-> PNum(TB_Wp_y(s)),
         Me_x_kNm |-> PNum(PMoment(TB_We_x(s))),
         Mp_x_kNm |-> PNum(PMoment(TB_Wp_x(s))),
         shape_x  |-> Quot(TB_Wp_x(s), TB_We_x(s)),
         Me_y_kNm |-> PNum(PMoment(TB_We_y(s))),
         Mp_y_kNm |-> PNum(PMoment(TB_Wp_y(s))),
         shape_y  |-> Quot(TB_Wp_y(s), TB_We_y(s))])

(***************************************************************************)
(* Python's order of strings (sorted): lexicographic on the code points.   *)
(* Codes gives the code points of every key the model uses.                *)
(***************************************************************************)
Codes(k) ==
    CASE k = "section" -> <<115, 101, 99, 116, 105, 111, 110>>
      [] k = "A_mm2" -> <<65, 95, 109, 109, 50>>
      [] k = "Ix_mm4" -> <<73, 120, 95, 109, 109, 52>>
      [] k = "Iy_mm4" -> <<73, 121, 95, 109, 109, 52>>
      [] k = "We_x_mm3" -> <<87, 101, 95, 120, 95, 109, 109, 51>>
      [] k = "Wp_x_mm3" -> <<87, 112, 95, 120, 95, 109, 109, 51>>
      [] k = "Me_x_kNm" -> <<77, 101, 95, 120, 95, 107, 78, 109>>
      [] k = "Mp_x_kNm" -> <<77, 112, 95, 120, 95, 107, 78, 109>>
      [] k = "shape_x" -> <<115, 104, 97, 112, 101, 95, 120>>
      [] k = "We_y_mm3" -> <<87, 101, 95, 121, 95, 109, 109, 51>>
      [] k = "Wp_y_mm3" -> <<87, 112, 95, 121, 95, 109, 109, 51>>
      [] k = "Me_y_kNm" -> <<77, 101, 95, 121, 95, 107, 78, 109>>
      [] k = "Mp_y_kNm" -> <<77, 112, 95, 121, 95, 107, 78, 109>>
      [] k = "shape_y" -> <<115, 104, 97, 112, 101, 95, 121>>
      [] k = "x_c_mm" -> <<120, 95, 99, 95, 109, 109>>
      [] k = "y_c_mm" -> <<121, 95, 99, 95, 109, 109>>
      [] k = "note" -> <<110, 111, 116, 101>>
      [] k = "Zeta" -> <<90, 101, 116, 97>>

RECURSIVE LexLe(_, _)
LexLe(a, b) ==
    IF a = <<>> THEN TRUE
    ELSE IF b = <<>> THEN FALSE
    ELSE IF a[1] # b[1] THEN a[1] < b[1]
    ELSE LexLe(Tail(a), Tail(b))

StrLe(a, b) == LexLe(Codes(a), Codes(b))

RECURSIVE sorted(_)
sorted(S) ==
    IF S = {} THEN <<>>
    ELSE LET m == CHOOSE x \in S : \A y \in S : StrLe(x, y)
         IN  <<m>> \o sorted(S \ {m})

Range(f) == {f[i] : i \in DOMAIN f}

(***************************************************************************)
(* CSV util (union of keys) and Excel util.  A written file is its header  *)
(* and its rows of cells; a cell holds the value handed to the writer (the *)
(* writer's text encoding of a value is not modelled).                     *)
(***************************************************************************)
preferred ==
    <<"section", "A_mm2",
      "Ix_mm4", "Iy_mm4",
      "We_x_mm3", "Wp_x_mm3", "Me_x_kNm", "Mp_x_kNm", "shape_x",
      "We_y_mm3", "Wp_y_mm3", "Me_y_kNm", "Mp_y_kNm", "shape_y",
      "x_c_mm", "y_c_mm">>

all_keys(rs) == UNION {DOMAIN rs[i] : i \in DOMAIN rs}

InPreferred(k) == k \in Range(preferred)

\* mutant of csv_keys: every key in sorted order, the preferred order dropped
csv_keys_all_sorted(rs) == sorted(all_keys(rs))

\* [k for k in preferred if k in all_keys] + [k for k in sorted(all_keys) if k not in preferred]
csv_keys(rs) ==
    LET Occurs(k) == k \in all_keys(rs)
        NotPreferred(k) == ~InPreferred(k)
    IN  SelectSeq(preferred, Occurs) \o SelectSeq(sorted(all_keys(rs)), NotPreferred)

\* r.get(k, "")
get(r, k, default) == IF k \in DOMAIN r THEN r[k] ELSE default

row_out(r, keys) == [j \in 1..Len(keys) |-> get(r, keys[j], Str(""))]

NoFile == [exists |-> FALSE]

Table(rs) ==
    [exists |-> TRUE,
     header |-> csv_keys(rs),
     rows   |-> [i \in 1..Len(rs) |-> row_out(rs[i], csv_keys(rs))]]

\* save_csv(rows, path): the file at path afterwards, given the file before
save_csv(rs, before) == IF rs = <<>> THEN before ELSE Table(rs)

\* save_xlsx(rows, path): as save_csv, the sheet "Summary" with a styled header;
\* nothing is written without openpyxl
save_xlsx(rs, before, openpyxl_ok) ==
    IF rs = <<>> \/ ~openpyxl_ok THEN before ELSE Table(rs)

(***************************************************************************)
(* Reporting (console)                                                     *)
(***************************************************************************)
ReportKeys ==
    <<"Ix_mm4", "Iy_mm4", "We_x_mm3", "Wp_x_mm3", "Me_x_kNm", "Mp_x_kNm",
      "shape_x", "We_y_mm3", "Wp_y_mm3", "Me_y_kNm", "Mp_y_kNm", "shape_y">>

\* results[k] raises KeyError for a key the record lacks
report_raises(results) == \E i \in DOMAIN ReportKeys : ReportKeys[i] \notin DOMAIN results

\* the table report prints: the area (or a dash), then the twelve entries
report_rows(results) ==
    <<get(results, "A_mm2", Str("-"))>>
        \o [i \in 1..Len(ReportKeys) |-> results[ReportKeys[i]]]

report(title, results) == [title |-> title, rows |-> report_rows(results)]

(***************************************************************************)
(* Bounds of the checked inputs (lengths in cm)                            *)
(***************************************************************************)
MaxB == 3

MaxT == 2

MaxTw == 2

MaxH == 6

MaxDoK == 4

MaxRows == 2

MaxVal == 2

(***************************************************************************)
(* The demo run (__main__) as a state machine                              *)
(***************************************************************************)
VARIABLES
    pc,            \* the line of __main__ about to run, "end" or "raised"
    s1, s2, s3,    \* the three section objects (constructor arguments)
    OPENPYXL_OK,   \* whether the import of openpyxl succeeded
    recs,          \* the dicts bound to the names r1, r2, r3
    at_return,     \* history: each dict as compute() returned it
    rows,          \* the list rows
    console,       \* what was printed, in order
    fs             \* the files at CSV_PATH and XLSX_PATH

vars == <<pc, s1, s2, s3, OPENPYXL_OK, recs, at_return, rows, console, fs>>

VERBOSE == TRUE

SAVE_CSV == TRUE

SAVE_XLSX == TRUE

\* explain(msg): printed only when VERBOSE
explain(out, msg) == IF VERBOSE THEN Append(out, <<"explain", msg>>) ELSE out

print(out, text) == Append(out, <<"print", text>>)

\* BuiltUpI(b_top=300, t_top=20, b_bot=100, t_bot=20, tw=10, H=800), mm -> cm
DemoS1 ==
    [b_top |-> Frac(300, 10), t_top |-> Frac(20, 10), b_bot |-> Frac(100, 10),
     t_bot |-> Frac(20, 10), tw |-> Frac(10, 10), H |-> Frac(800, 10)]

\* The demo's tube CHS(Do=323.0, t=12.0) and the defaults gap_back = 28.9 and
\* y_c = 190.4 give values whose exact numerators exceed the model's integers;
\* the run is checked with the nearby Do = 320, t = 10, gap_back = 30 and
\* y_c = 190 mm, and with the grids below.
DemoTube == [Do |-> Frac(320, 10), t |-> Frac(10, 10)]

gap_back_demo == Frac(30, 10)

y_c_demo == Frac(190, 10)

DemoS2 ==
    [tube |-> DemoTube, upe |-> UPE300Catalog, gap_back |-> gap_back_demo,
     Wp_x_upe_override |-> None]

DemoS3 == [tube |-> DemoTube, upe |-> UPE300Catalog, y_c |-> y_c_demo]

\* built-up I inputs: every combination of whole dimensions within the bounds,
\* the invalid ones (H <= t_top + t_bot) included
GridS1 ==
    {[b_top |-> R(bt), t_top |-> R(tt), b_bot |-> R(bb), t_bot |-> R(tb),
      tw |-> R(w), H |-> R(h)] :
        bt \in 1..MaxB, tt \in 1..MaxT, bb \in 1..MaxB, tb \in 1..MaxT,
        w \in 1..MaxTw, h \in 1..MaxH}

\* tubes: Do = 8, 16, ... cm with t = 1, 4 or 20 cm; t >= Do/2 is invalid
GridTube == {[Do |-> R(8 * k), t |-> R(t)] : k \in 1..MaxDoK, t \in {1, 4, 20}}

GridS2 ==
    {[tube |-> c, upe |-> UPE300Catalog, gap_back |-> g, Wp_x_upe_override |-> o] :
        c \in GridTube, g \in {RZero, gap_back_demo},
        o \in {None, <<"f", R(250)>>}}

\* the top-bottom section shares the tube; its y_c is 1 cm, 19 cm, or
\* the x_c of the left-right section
GridS3(lr) ==
    {[tube |-> lr.tube, upe |-> UPE300Catalog, y_c |-> y] :
        y \in {R(1), y_c_demo, LR_x_c(lr)}}

Init ==
    /\ pc = "L473"
    /\ \/ s1 \in GridS1 /\ s2 = DemoS2 /\ s3 = DemoS3 /\ OPENPYXL_OK = TRUE
       \/ s1 = DemoS1 /\ s2 \in GridS2 /\ s3 \in GridS3(s2) /\ OPENPYXL_OK \in BOOLEAN
       \/ s1 = DemoS1 /\ s2 = DemoS2 /\ s3 = DemoS3 /\ OPENPYXL_OK \in BOOLEAN
    /\ recs = <<>>
    /\ at_return = <<>>
    /\ rows = <<>>
    /\ console = <<>>
    /\ fs = [csv |-> NoFile, xlsx |-> NoFile]

\* lines 473-474
PrintSaveFolder ==
    /\ pc = "L473"
    /\ console' = print(console, "Save folder")
    /\ pc' = "L477"
    /\ UNCHANGED <<s1, s2, s3, OPENPYXL_OK, recs, at_return, rows, fs>>

\* what BuiltUpI.compute prints
I_narration(out) ==
    explain(explain(explain(out, "areas and centroid"), "parallel-axis"),
            "plastic neutral axis")

\* lines 477-478: r1 = s1.compute()
Section1Compute ==
    /\ pc = "L477"
    /\ LET res == BuiltUpI_compute(s1)
       IN  IF res.raised # ""
           THEN /\ pc' = "raised"
                /\ console' = explain(console, "areas and centroid")
                /\ UNCHANGED <<recs, at_return>>
           ELSE /\ pc' = "L479"
                /\ console' = I_narration(console)
                /\ recs' = recs @@ ("r1" :> res.value)
                /\ at_return' = at_return @@ ("r1" :> res.value)
    /\ UNCHANGED <<s1, s2, s3, OPENPYXL_OK, rows, fs>>

\* report(title, results) called on the dict bound to name
Report(name, title, next) ==
    IF report_raises(recs[name])
    THEN /\ pc' = "raised"
         /\ UNCHANGED console
    ELSE /\ pc' = next
         /\ console' = Append(console, <<"report", report(title, recs[name])>>)

\* line 479
Section1Report ==
    /\ pc = "L479"
    /\ Report("r1", "Section 1 - Built-up I", "L480")
    /\ UNCHANGED <<s1, s2, s3, OPENPYXL_OK, recs, at_return, rows, fs>>

\* r[k] = v on a dict
setitem(r, k, v) == [x \in DOMAIN r \cup {k} |-> IF x = k THEN v ELSE r[x]]

\* line 480: r1["section"] = "Built-up I"
Section1Label ==
    /\ pc = "L480"
    /\ recs' = [recs EXCEPT !["r1"] = setitem(@, "section", Str("Built-up I"))]
    /\ pc' = "L483"
    /\ UNCHANGED <<s1, s2, s3, OPENPYXL_OK, at_return, rows, console, fs>>

\* lines 483-485: r2 = s2.compute()
Section2Compute ==
    /\ pc = "L483"
    /\ LET res == CHS_UPE_LR_compute(s2)
       IN  IF res.raised # ""
           THEN /\ pc' = "raised"
                /\ UNCHANGED <<recs, at_return>>
           ELSE /\ pc' = "L486"
                /\ recs' = recs @@ ("r2" :> res.value)
                /\ at_return' = at_return @@ ("r2" :> res.value)
    /\ console' = explain(console, "CG at tube center by LR symmetry")
    /\ UNCHANGED <<s1, s2, s3, OPENPYXL_OK, rows, fs>>

\* lines 486-489
Section2Report ==
    /\ pc = "L486"
    /\ IF report_raises(recs["r2"])
       THEN /\ pc' = "raised"
            /\ console' = explain(explain(console, "For LR: c_x, c_y"), "Steiner affects Iy")
       ELSE /\ pc' = "L492"
            /\ console' = Append(explain(explain(console, "For LR: c_x, c_y"),
                                         "Steiner affects Iy"),
                                 <<"report", report("Section 2 - CHS + 2xUPE300 (L-R)", recs["r2"])>>)
    /\ UNCHANGED <<s1, s2, s3, OPENPYXL_OK, recs, at_return, rows, fs>>

\* lines 492-493: r3 = s3.compute()
Section3Compute ==
    /\ pc = "L492"
    /\ LET res == CHS_UPE_TB_compute(s3)
       IN  IF res.raised # ""
           THEN /\ pc' = "raised"
                /\ UNCHANGED <<recs, at_return>>
           ELSE /\ pc' = "L494"
                /\ recs' = recs @@ ("r3" :> res.value)
                /\ at_return' = at_return @@ ("r3" :> res.value)
    /\ console' = explain(explain(console, "TB symmetry: CG at tube center"),
                          "Ix gets Steiner; Iy does not")
    /\ UNCHANGED <<s1, s2, s3, OPENPYXL_OK, rows, fs>>

\* lines 494-497
Section3Report ==
    /\ pc = "L494"
    /\ IF report_raises(recs["r3"])
       THEN /\ pc' = "raised"
            /\ console' = explain(explain(console, "For TB: c_x, c_y"), "Steiner affects Ix")
       ELSE /\ pc' = "L500"
            /\ console' = Append(explain(explain(console, "For TB: c_x, c_y"),
                                         "Steiner affects Ix"),
                                 <<"report", report("Section 3 - CHS + 2xUPE300 (T-B)", recs["r3"])>>)
    /\ UNCHANGED <<s1, s2, s3, OPENPYXL_OK, recs, at_return, rows, fs>>

\* line 500: rows = [r1, r2, r3]
Collect ==
    /\ pc = "L500"
    /\ rows' = <<recs["r1"], recs["r2"], recs["r3"]>>
    /\ pc' = "L502"
    /\ UNCHANGED <<s1, s2, s3, OPENPYXL_OK, recs, at_return, console, fs>>

\* lines 502-505
SaveCsvStep ==
    /\ pc = "L502"
    /\ IF SAVE_CSV
       THEN /\ fs' = [fs EXCEPT !.csv = save_csv(rows, @)]
            /\ console' = print(console, "Saved CSV")
       ELSE UNCHANGED <<fs, console>>
    /\ pc' = "L507"
    /\ UNCHANGED <<s1, s2, s3, OPENPYXL_OK, recs, at_return, rows>>

\* lines 507-514
SaveXlsxStep ==
    /\ pc = "L507"
    /\ IF SAVE_XLSX
       THEN IF OPENPYXL_OK
            THEN /\ fs' = [fs EXCEPT !.xlsx = save_xlsx(rows, @, OPENPYXL_OK)]
                 /\ console' = print(console, "Saved Excel")
            ELSE /\ console' = print(console, "Excel save skipped")
                 /\ UNCHANGED fs
       ELSE UNCHANGED <<fs, console>>
    /\ pc' = "end"
    /\ UNCHANGED <<s1, s2, s3, OPENPYXL_OK, recs, at_return, rows>>

Next ==
    \/ PrintSaveFolder
    \/ Section1Compute
    \/ Section1Report
    \/ Section1Label
    \/ Section2Compute
    \/ Section2Report
    \/ Section3Compute
    \/ Section3Report
    \/ Collect
    \/ SaveCsvStep
    \/ SaveXlsxStep

Spec == Init /\ [][Next]_vars

(***************************************************************************)
(* save_csv called on arbitrary rows: dicts over a few keys, two of them   *)
(* preferred ("section" precedes "A_mm2" in the preferred order and        *)
(* follows it in the sorted order) and two not ("note", "Zeta")            *)
(***************************************************************************)
CsvKeyPool == {"section", "A_mm2", "note", "Zeta"}

CsvDicts ==
    {[k \in K |-> Num(R(v))] : K \in (SUBSET CsvKeyPool) \ {{}}, v \in 1..MaxVal}

CsvRows == UNION {[1..n -> CsvDicts] : n \in 0..MaxRows}

InitSaveCsv ==
    /\ pc = "L502"
    /\ rows \in CsvRows
    /\ s1 = DemoS1 /\ s2 = DemoS2 /\ s3 = DemoS3
    /\ OPENPYXL_OK = TRUE
    /\ recs = <<>>
    /\ at_return = <<>>
    /\ console = <<>>
    /\ fs = [csv |-> NoFile, xlsx |-> NoFile]

NextSaveCsv == SaveCsvStep

SpecSaveCsv == InitSaveCsv /\ [][NextSaveCsv]_vars

(***************************************************************************)
(* Preconditions of the claims and reference quantities                    *)
(***************************************************************************)
Pos(x) == RSign(x) > 0

\* BuiltUpI: all dimensions > 0 and H > t_top + t_bot
I_valid(s) ==
    /\ Pos(s.b_top) /\ Pos(s.t_top) /\ Pos(s.b_bot) /\ Pos(s.t_bot)
    /\ Pos(s.tw) /\ Pos(s.H)
    /\ RLt(RAdd(s.t_top, s.t_bot), s.H)

\* tube: 0 < t < Do/2
CHS_valid(c) == Pos(c.t) /\ RLt(c.t, RDiv(c.Do, R(2)))

LR_valid(s) == CHS_valid(s.tube) /\ RSign(s.gap_back) >= 0

TB_valid(s) == CHS_valid(s.tube) /\ Pos(s.y_c)

HasRec(name) == name \in DOMAIN at_return

\* the float q + p*pi held under key k by the dict d
Val(d, k) == <<d[k][2], d[k][3]>>

\* the part of the rectangle of width w between the depths a and b (a <= b)
\* that lies above the horizontal line at depth y: its area
RectAreaAbove(w, a, b, y) ==
    IF RLe(y, a) THEN RZero
    ELSE IF RLe(b, y) THEN RMul(w, RSub(b, a))
    ELSE RMul(w, RSub(y, a))

\* the first moment about the line at depth y of the same rectangle, the
\* part above and the part below each taken as area times distance of its
\* centroid to the line
RectMoment(w, a, b, y) ==
    IF RLe(y, a)
    THEN RMul(RMul(w, RSub(b, a)), RSub(RDiv(RAdd(a, b), R(2)), y))
    ELSE IF RLe(b, y)
    THEN RMul(RMul(w, RSub(b, a)), RSub(y, RDiv(RAdd(a, b), R(2))))
    ELSE RAdd(RDiv(RMul(w, RSq(RSub(y, a))), R(2)),
              RDiv(RMul(w, RSq(RSub(b, y))), R(2)))

\* the real cross-section: top flange, web, bottom flange
RealArea(s) ==
    RAdd(RAdd(RMul(s.b_top, s.t_top), RMul(s.tw, RSub(RSub(s.H, s.t_top), s.t_bot))),
         RMul(s.b_bot, s.t_bot))

RealAreaAbove(s, y) ==
    RAdd(RAdd(RectAreaAbove(s.b_top, RZero, s.t_top, y),
              RectAreaAbove(s.tw, s.t_top, RSub(s.H, s.t_bot), y)),
         RectAreaAbove(s.b_bot, RSub(s.H, s.t_bot), s.H, y))

RealMoment(s, y) ==
    RAdd(RAdd(RectMoment(s.b_top, RZero, s.t_top, y),
              RectMoment(s.tw, s.t_top, RSub(s.H, s.t_bot), y)),
         RectMoment(s.b_bot, RSub(s.H, s.t_bot), s.H, y))

(***************************************************************************)
(* C1.  Invalid geometry is rejected before any derived quantity is        *)
(* produced: a built-up I with H <= t_top + t_bot, and a composite section *)
(* on a tube with t >= Do/2, never get a record from compute().            *)
(***************************************************************************)
C1_InvalidGeometryRejected ==
    /\ RLe(s1.H, RAdd(s1.t_top, s1.t_bot)) => ~HasRec("r1")
    /\ RLe(RDiv(s2.tube.Do, R(2)), s2.tube.t) => ~HasRec("r2")
    /\ RLe(RDiv(s3.tube.Do, R(2)), s3.tube.t) => ~HasRec("r3")

\* the built-up I half of C1 alone, and the tube half alone
C1_InvalidBuiltUpIRejected ==
    RLe(s1.H, RAdd(s1.t_top, s1.t_bot)) => ~HasRec("r1")

C1_InvalidTubeRejected ==
    RLe(RDiv(s2.tube.Do, R(2)), s2.tube.t) => ~HasRec("r2")

(***************************************************************************)
(* C2.  For every valid input of each strategy the returned record has     *)
(* Wp_x_mm3 >= We_x_mm3 and Wp_y_mm3 >= We_y_mm3.                          *)
(***************************************************************************)
PlasticAtLeastElastic(d) ==
    /\ PLe(Val(d, "We_x_mm3"), Val(d, "Wp_x_mm3"))
    /\ PLe(Val(d, "We_y_mm3"), Val(d, "Wp_y_mm3"))

C2_ShapeFactorsAtLeastOne ==
    /\ HasRec("r1") /\ I_valid(s1) => PlasticAtLeastElastic(at_return["r1"])
    /\ HasRec("r2") /\ LR_valid(s2) => PlasticAtLeastElastic(at_return["r2"])
    /\ HasRec("r3") /\ TB_valid(s3) => PlasticAtLeastElastic(at_return["r3"])

(***************************************************************************)
(* C3.  For every valid built-up I the plastic neutral axis depth y_PNA    *)
(* lies within the section, 0 <= y_PNA <= H, and the line at that depth    *)
(* splits the real cross-section into two parts of area A/2 each.          *)
(***************************************************************************)
C3_NeutralAxisHalvesArea ==
    HasRec("r1") /\ I_valid(s1) =>
        /\ RLe(RZero, I_y_PNA(s1))
        /\ RLe(I_y_PNA(s1), s1.H)
        /\ RealAreaAbove(s1, I_y_PNA(s1)) = RDiv(RealArea(s1), R(2))

(***************************************************************************)
(* C4.  Cross-check of the two composite strategies: same tube and         *)
(* channel, x_c of the left-right section equal to y_c of the top-bottom   *)
(* section.  As claimed: Ix(LR) = Iy(TB) and Iy(LR) = Ix(TB).              *)
(***************************************************************************)
CrossCheckCase ==
    /\ HasRec("r2") /\ HasRec("r3")
    /\ s2.tube = s3.tube /\ s2.upe = s3.upe
    /\ LR_x_c(s2) = s3.y_c

C4_CrossCheckAsClaimed ==
    CrossCheckCase =>
        /\ at_return["r2"]["Ix_mm4"] = at_return["r3"]["Iy_mm4"]
        /\ at_return["r2"]["Iy_mm4"] = at_return["r3"]["Ix_mm4"]

\* C4 as amended: in the cross-check case the two records agree once each
\* channel's own inertia is taken out, Ix(LR) - 2*upe.Ix = Iy(TB) - 2*upe.Iy
\* and Iy(LR) - 2*upe.Iy = Ix(TB) - 2*upe.Ix: the tube and the Steiner term
\* A*offset^2 change axis, the channels' own Ix and Iy do not.
C4_CrossCheckAmended ==
    CrossCheckCase =>
        LET dIx == PRat(RMul(R(2), s2.upe.Ix))
            dIy == PRat(RMul(R(2), s2.upe.Iy))
        IN  /\ PSub(Val(at_return["r2"], "Ix_mm4"), dIx)
                 = PSub(Val(at_return["r3"], "Iy_mm4"), dIy)
            /\ PSub(Val(at_return["r2"], "Iy_mm4"), dIy)
                 = PSub(Val(at_return["r3"], "Ix_mm4"), dIx)

C4_Witness == CrossCheckCase /\ CHS_valid(s2.tube) /\ pc = "end"

(***************************************************************************)
(* C5.  For the documented scenario BuiltUpI(300, 20, 100, 20, 10, 800)    *)
(* the returned shape_x lies strictly between 1.05 and 1.40 (as claimed).  *)
(***************************************************************************)
DemoCase == s1 = DemoS1 /\ HasRec("r1")

C5_ShapeXAsClaimed ==
    DemoCase =>
        /\ RLt(Frac(105, 100), Val(at_return["r1"], "shape_x")[1])
        /\ RLt(Val(at_return["r1"], "shape_x")[1], Frac(140, 100))

\* C5 as amended: for the documented scenario shape_x = 4164000/2853760,
\* about 1.459, which lies strictly between 1.45 and 1.46.
C5_ShapeXAmended ==
    DemoCase =>
        /\ RLt(Frac(145, 100), Val(at_return["r1"], "shape_x")[1])
        /\ RLt(Val(at_return["r1"], "shape_x")[1], Frac(146, 100))
        /\ Val(at_return["r1"], "shape_x")[1] = Frac(4164000, 2853760)

C5_Witness == DemoCase /\ pc = "L479"

(***************************************************************************)
(* C6.  Symmetric built-up I: for every valid geometry with b_top = b_bot  *)
(* and t_top = t_bot the centroid depth ybar is exactly H/2, so            *)
(* c_top = c_bot and Ix/c_top = Ix/c_bot.                                  *)
(***************************************************************************)
SymmetricCase ==
    /\ HasRec("r1") /\ I_valid(s1)
    /\ s1.b_top = s1.b_bot /\ s1.t_top = s1.t_bot

PrefIndex(k) == CHOOSE i \in DOMAIN preferred : preferred[i] = k

KeysOf(rs) == UNION {DOMAIN rs[i] : i \in DOMAIN rs}

CsvWritten == pc = "L507" /\ rows # <<>>

C7_CsvHeaderAndRows ==
    CsvWritten =>
        /\ fs.csv.exists
        /\ LET h == fs.csv.header
               body == fs.csv.rows
           IN  /\ Range(h) = KeysOf(rows)
               /\ Len(h) = Cardinality(KeysOf(rows))
               /\ \A i \in 1..Len(h), j \in 1..Len(h) :
                     i < j =>
                        IF h[i] \in Range(preferred)
                        THEN h[j] \in Range(preferred) => PrefIndex(h[i]) < PrefIndex(h[j])
                        ELSE h[j] \notin Range(preferred) /\ StrLe(h[i], h[j])
               /\ Len(body) = Len(rows)
               /\ \A i \in 1..Len(rows) :
                     /\ Len(body[i]) = Len(h)
                     /\ \A j \in 1..Len(h) :
                           body[i][j] = IF h[j] \in DOMAIN rows[i]
                                        THEN rows[i][h[j]]
                                        ELSE Str("")

\* a file written from two records with different key sets, both keys that
\* are not preferred among the columns, a cell left empty
C7_Witness ==
    /\ CsvWritten
    /\ Len(rows) = 2
    /\ DOMAIN rows[1] # DOMAIN rows[2]
    /\ {"note", "Zeta", "section", "A_mm2"} \subseteq Range(fs.csv.header)
    /\ \E j \in 1..Len(fs.csv.header) : fs.csv.rows[2][j] = Str("")

(***************************************************************************)
(* C8.  A capacity record is never mutated after compute() returns it:     *)
(* along the whole run every record bound to r1, r2, r3 equals, in keys    *)
(* and values, the record its compute() call returned.                     *)
(***************************************************************************)
C8_RecordsNeverMutated ==
    \A name \in DOMAIN at_return : recs[name] = at_return[name]

\* what does hold along the run: a record changes only in the step of line
\* 480; the report and export steps leave every record as it is
C8_OnlyTheLabelStepMutates ==
    [][\A name \in DOMAIN recs : recs'[name] # recs[name] => pc = "L480"]_vars

(***************************************************************************)
(* C9.  For every valid built-up I, in both branches of the neutral-axis   *)
(* search, Wp_x_mm3 equals the sum over the real regions of the section    *)
(* split at y_PNA of region area times the distance of the region's        *)
(* centroid to the axis.                                                   *)
(***************************************************************************)
C9_PlasticModulusIsFirstMoment ==
    HasRec("r1") /\ I_valid(s1) =>
        Val(at_return["r1"], "Wp_x_mm3")[1] = RealMoment(s1, I_y_PNA(s1))

\* C9 restricted to the branch where the axis is put in the top flange
C9_TopFlangeBranch ==
    HasRec("r1") /\ I_valid(s1) /\ I_in_top(s1) =>
        Val(at_return["r1"], "Wp_x_mm3")[1] = RealMoment(s1, I_y_PNA(s1))

(***************************************************************************)
(* C10.  Given valid geometry every divisor used by the three compute()    *)
(* operations is strictly positive: A, c_top, c_bot, the half flange       *)
(* width, b_top, tw, c_x, c_y, and the elastic moduli We_x and We_y the    *)
(* shape factors divide by; no compute() raises ZeroDivisionError.         *)
(***************************************************************************)
C10_DivisorsPositive ==
    /\ I_valid(s1) =>
          /\ Pos(I_A(s1))
          /\ Pos(I_c_top(s1))
          /\ Pos(I_c_bot(s1))
          /\ Pos(RMax(RDiv(s1.b_top, R(2)), RDiv(s1.b_bot, R(2))))
          /\ Pos(s1.b_top)
          /\ Pos(s1.tw)
          /\ Pos(I_We_x(s1))
          /\ Pos(I_We_y(s1))
          /\ ~I_raises(s1)
    /\ LR_valid(s2) =>
          /\ PSign(LR_A_total(s2)) > 0
          /\ Pos(RDiv(s2.upe.h, R(2)))
          /\ Pos(LR_c_x(s2))
          /\ Pos(LR_c_y(s2))
          /\ PSign(LR_We_x(s2)) > 0
          /\ PSign(LR_We_y(s2)) > 0
          /\ ~LR_raises(s2)
    /\ TB_valid(s3) =>
          /\ Pos(TB_c_x(s3))
          /\ Pos(TB_c_y(s3))
          /\ PSign(TB_We_x(s3)) > 0
          /\ PSign(TB_We_y(s3)) > 0
          /\ ~TB_raises(s3)
    /\ pc = "raised" => ~I_valid(s1) \/ ~LR_valid(s2) \/ ~TB_valid(s3)
    /\ I_valid(s1) /\ pc \notin {"L473", "L477"} => HasRec("r1")

\* all three sections valid and computed: the axis of the built-up I in the
\* web, the tube wider than the channel is high
C10_Witness ==
    /\ pc = "end"
    /\ I_valid(s1) /\ LR_valid(s2) /\ TB_valid(s3)
    /\ HasRec("r1") /\ HasRec("r2") /\ HasRec("r3")
    /\ RLt(RDiv(s2.upe.h, R(2)), CHS_Ro(s2.tube))

=============================================================================
